---- MODULE Spec2Model ----
(***************************************************************************)
(* Model of evcouplings/compare/distances.py: the minimum-atom-distance    *)
(* kernel _distances and the DistanceMap class built on it.                *)
(*                                                                         *)
(* Numbers.  Coordinates are integer triples.  A distance is the integer   *)
(* part of the Euclidean distance, floor(sqrt(dx^2 + dy^2 + dz^2)); floor  *)
(* commutes with min and with the comparison against the integer           *)
(* LARGE_DIST, so every min / copy the kernel performs on the real values  *)
(* is mirrored exactly on the integer parts.  Sums of squares exceed 2^31, *)
(* so they are kept as two-limb numbers <<hi, lo>> = hi * 10^6 + lo.       *)
(***************************************************************************)
EXTENDS Integers, Sequences, FiniteSets, TLC

VARIABLES
    pc,           \* position of the running call
    chain_i,      \* from_coords argument chain_i (coords table + residue table)
    chain_j,      \* from_coords argument chain_j, or None
    residues_i,   \* kernel argument: atom range [first, last] of each residue, axis i
    coords_i,     \* kernel argument: coordinates of the atoms of axis i
    residues_j,   \* kernel argument: atom ranges, axis j
    coords_j,     \* kernel argument: coordinates, axis j
    symmetric,    \* kernel argument: symmetric flag
    dists,        \* kernel local: the matrix being filled
    i,            \* kernel loop variable (outer)
    j,            \* kernel loop variable (inner)
    fill,         \* history: which branch of the loop body wrote each cell
    map,          \* the DistanceMap object held by the caller, or None
    file,         \* the file pair <prefix>.csv / <prefix>.npy, or None
    last          \* the outcome of the last call made on the map

vars == <<pc, chain_i, chain_j, residues_i, coords_i, residues_j, coords_j,
          symmetric, dists, i, j, fill, map, file, last>>

kernelVars == <<residues_i, coords_i, residues_j, coords_j, symmetric,
                dists, i, j, fill>>

(***************************************************************************)
(* Bounds of the model.                                                    *)
(***************************************************************************)
MaxAtoms == 3   \* most atoms of a symmetric call, and of both axes together
MaxRes == 2     \* most residues on an axis

None == [t |-> "None", v |-> 0]

\* what a call hands back: a float, nan, None, or the error it raises
Float(x) == [t |-> "float", v |-> x]
NaN == [t |-> "nan", v |-> 0]
KeyError == [t |-> "KeyError", v |-> 0]
NotImplementedError == [t |-> "NotImplementedError", v |-> 0]
TypeError == [t |-> "TypeError", v |-> 0]

Abs(x) == IF x < 0 THEN -x ELSE x
Max2(x, y) == IF x >= y THEN x ELSE y

(***************************************************************************)
(* Atom positions the inputs are drawn from: the three atoms of the        *)
(* two-residue scenario and one atom 2 000 000 away from the origin.       *)
(***************************************************************************)
Points == { <<0, 0, 0>>, <<1, 0, 0>>, <<3, 0, 0>>, <<0, 1200000, 1600000>> }

(***************************************************************************)
(* Two-limb arithmetic for the sum of squares.                             *)
(***************************************************************************)
Limb == 1000 * 1000
Carry(x) == <<x[1] + (x[2] \div Limb), x[2] % Limb>>
Square(d) ==
    LET a == d \div 1000
        b == d % 1000
    IN  Carry(<<a * a + ((2 * a * b) \div 1000),
                ((2 * a * b) % 1000) * 1000 + b * b>>)
Plus(x, y) == Carry(<<x[1] + y[1], x[2] + y[2]>>)
Leq(x, y) == x[1] < y[1] \/ (x[1] = y[1] /\ x[2] <= y[2])

RECURSIVE FloorSqrt(_, _, _)
\* the largest r in lo..hi with r * r <= s
FloorSqrt(s, lo, hi) ==
    IF lo >= hi THEN lo
    ELSE LET mid == (lo + hi + 1) \div 2
         IN  IF Leq(Square(mid), s) THEN FloorSqrt(s, mid, hi)
             ELSE FloorSqrt(s, lo, mid - 1)

\* np.sqrt(np.sum((coords_i[a_i] - coords_j[a_j]) ** 2)), integer part
EuclideanDistance(p, q) ==
    LET dx == Abs(p[1] - q[1])
        dy == Abs(p[2] - q[2])
        dz == Abs(p[3] - q[3])
    IN  FloorSqrt(Plus(Plus(Square(dx), Square(dy)), Square(dz)),
                  Max2(dx, Max2(dy, dz)), dx + dy + dz)

\* the distances of the atom positions, computed once
DistanceOf == [pq \in Points \X Points |-> EuclideanDistance(pq[1], pq[2])]

(***************************************************************************)
(* Identifiers.  A str identifier is its leading digits and what follows   *)
(* them ("1" = 1 + "", "1A" = 1 + "A"); an int identifier has digits only. *)
(* A str and an int are never equal as dictionary keys.                    *)
(***************************************************************************)
StrId(n, s) == [kind |-> "str", num |-> n, suffix |-> s]
IntId(n) == [kind |-> "int", num |-> n, suffix |-> ""]
NoId == [kind |-> "none", num |-> 0, suffix |-> ""]

\* str(i): the decimal digits of an int, a str unchanged
Str(v) == [kind |-> "str", num |-> v.num, suffix |-> v.suffix]

NoCall == [op |-> "none", i |-> NoId, j |-> NoId, raise_na |-> FALSE, out |-> None]
Called(op, out) == [op |-> op, i |-> NoId, j |-> NoId, raise_na |-> FALSE, out |-> out]

(***************************************************************************)
(* _distances                                                              *)
(***************************************************************************)
LARGE_DIST == 1000000

Min2(x, y) == IF y < x THEN y ELSE x

\* residues.shape[0]
N_i == Len(residues_i)
N_j == Len(residues_j)

\* np.ones in the place of np.zeros
Ones(rows, cols) == [c \in (0 .. rows - 1) \X (0 .. cols - 1) |-> 1]

\* np.zeros((N_i, N_j))
Zeros(rows, cols) == [c \in (0 .. rows - 1) \X (0 .. cols - 1) |-> 0]

\* the running minimum of one residue pair, over the distances ds of its
\* atom pairs in loop order, starting from start
RECURSIVE RunningMin(_, _)
RunningMin(start, ds) ==
    IF ds = <<>> THEN start
    ELSE RunningMin(Min2(start, Head(ds)), Tail(ds))

\* the atom pairs of ranges range_i, range_j in the order of the two loops
RECURSIVE AtomPairs(_, _, _, _)
AtomPairs(a_i, a_j, range_i, range_j) ==
    IF a_i > range_i[2] \/ range_j[1] > range_j[2] THEN <<>>
    ELSE IF a_j > range_j[2] THEN AtomPairs(a_i + 1, range_j[1], range_i, range_j)
    ELSE <<(<<a_i, a_j>>)>> \o AtomPairs(a_i, a_j + 1, range_i, range_j)

\* cur_dist of every atom pair of the residue pair, in loop order
PairDistances(range_i, range_j) ==
    LET ps == AtomPairs(range_i[1], range_j[1], range_i, range_j)
    IN  [k \in 1 .. Len(ps) |->
            DistanceOf[<<coords_i[ps[k][1] + 1], coords_j[ps[k][2] + 1]>>]]

\* the running minimum started from the first atom pair, not from LARGE_DIST
MinDistFromFirst(range_i, range_j) ==
    LET ds == PairDistances(range_i, range_j)
    IN  IF ds = <<>> THEN 0 ELSE RunningMin(Head(ds), Tail(ds))

\* min_dist at the end of the else branch
MinDist(range_i, range_j) == RunningMin(LARGE_DIST, PairDistances(range_i, range_j))

\* the copy branch taken for the upper triangle: i <= j in the place of i >= j
CopyBranchUpper(sym, r, c) == sym /\ r <= c

\* the condition of the copy branch
CopyBranch(sym, r, c) == sym /\ r >= c

\* the copy reading dists[i, j] in the place of dists[j, i]
CopySourceSelf(r, c) == <<r, c>>

\* the cell a copied cell takes its value from
CopySource(r, c) == <<c, r>>

\* the position of the two loops after cell (r, c)
NextCell(r, c) == IF c + 1 < N_j THEN <<r, c + 1>> ELSE <<r + 1, 0>>

\* lines 44-48: shapes and the zero matrix; the loops start
KernelEnter ==
    /\ pc = "call"
    /\ dists' = Zeros(N_i, N_j)
    /\ fill' = [c \in (0 .. N_i - 1) \X (0 .. N_j - 1) |-> "none"]
    /\ i' = 0
    /\ j' = 0
    /\ pc' = IF N_i = 0 \/ N_j = 0 THEN "return" ELSE "loop"
    /\ UNCHANGED <<chain_i, chain_j, residues_i, coords_i, residues_j, coords_j,
                   symmetric, map, file, last>>

Advance ==
    /\ i' = NextCell(i, j)[1]
    /\ j' = NextCell(i, j)[2]
    /\ pc' = IF NextCell(i, j)[1] < N_i THEN "loop" ELSE "return"
    /\ UNCHANGED <<chain_i, chain_j, residues_i, coords_i, residues_j, coords_j,
                   symmetric, map, file, last>>

\* one pass of the loop body, copy branch: dists[i, j] = dists[j, i]
CopyCell ==
    /\ pc = "loop"
    /\ CopyBranch(symmetric, i, j)
    /\ dists' = [dists EXCEPT ![<<i, j>>] = dists[CopySource(i, j)]]
    /\ fill' = [fill EXCEPT ![<<i, j>>] = "copied"]
    /\ Advance

\* one pass of the loop body, else branch: all atom pairs of the residue pair
ComputeCell ==
    /\ pc = "loop"
    /\ ~CopyBranch(symmetric, i, j)
    /\ dists' = [dists EXCEPT ![<<i, j>>] = MinDist(residues_i[i + 1], residues_j[j + 1])]
    /\ fill' = [fill EXCEPT ![<<i, j>>] = "compared"]
    /\ Advance

\* line 77: return dists (a direct call of the kernel)
KernelReturn ==
    /\ pc = "return"
    /\ pc' = "done"
    /\ UNCHANGED <<chain_i, chain_j, kernelVars, map, file, last>>

(***************************************************************************)
(* Inputs of a direct kernel call: n atoms at positions of Points, cut     *)
(* into consecutive residue blocks; a block may be empty (first > last).   *)
(***************************************************************************)
CoordSeqs(n) == [1 .. n -> Points]

\* the ways to cut atoms 0 .. n-1 into k consecutive blocks, as the sequence
\* of [first, last] rows
Blocks(n, k) ==
    { [r \in 1 .. k |-> <<(IF r = 1 THEN 0 ELSE cut[r - 1]),
                          (IF r = k THEN n ELSE cut[r]) - 1>>] :
        cut \in { c \in [1 .. k - 1 -> 0 .. n] :
                    \A r \in 1 .. k - 2 : c[r] <= c[r + 1] } }

RangeSeqs(n) == UNION { Blocks(n, k) : k \in 1 .. MaxRes }

InitKernel ==
    /\ pc = "call"
    /\ chain_i = None /\ chain_j = None /\ map = None /\ file = None /\ last = NoCall
    /\ symmetric \in BOOLEAN
    /\ \E n \in 1 .. MaxAtoms :
         /\ coords_i \in CoordSeqs(n)
         /\ residues_i \in RangeSeqs(n)
         /\ IF symmetric
            THEN coords_j = coords_i /\ residues_j = residues_i
            ELSE \E m \in 1 .. MaxAtoms - n :
                     /\ coords_j \in CoordSeqs(m)
                     /\ residues_j \in RangeSeqs(m)
    /\ dists = <<>> /\ fill = <<>> /\ i = 0 /\ j = 0

NextKernel == KernelEnter \/ CopyCell \/ ComputeCell \/ KernelReturn

SpecKernel == InitKernel /\ [][NextKernel]_vars

(***************************************************************************)
(* DistanceMap.__init__                                                    *)
(***************************************************************************)
EmptyDict == [k \in {} |-> 0]

\* d.setdefault(key, val): an existing key keeps its value
SetDefault(d, key, val) ==
    [k \in DOMAIN d \cup {key} |-> IF k \in DOMAIN d THEN d[k] ELSE val]

\* d[key] = val
SetItem(d, key, val) ==
    [k \in DOMAIN d \cup {key} |-> IF k = key THEN val ELSE d[k]]

\* { id_: i for (i, id_) in enumerate(table.id.values) }, from row k on
RECURSIVE DictFrom(_, _, _)
DictFrom(d, table, k) ==
    IF k > Len(table) THEN d
    ELSE DictFrom(SetItem(d, table[k].id, k - 1), table, k + 1)

IdMap(table) == DictFrom(EmptyDict, table, 1)

DistanceMap(res_i, res_j, dist_matrix, sym) ==
    [residues_i |-> res_i, residues_j |-> res_j,
     dist_matrix |-> dist_matrix, symmetric |-> sym,
     id_map_i |-> IdMap(res_i), id_map_j |-> IdMap(res_j)]

(***************************************************************************)
(* DistanceMap._extract_coords and from_coords                             *)
(***************************************************************************)
Minimum(S) == CHOOSE x \in S : \A y \in S : x <= y
Maximum(S) == CHOOSE x \in S : \A y \in S : x >= y

\* the group keys of a groupby, ascending
SortedKeys(S) ==
    CHOOSE s \in [1 .. Cardinality(S) -> S] :
        \A a, b \in 1 .. Cardinality(S) : a < b => s[a] < s[b]

\* reset_index puts the table's index in a column; the index of a chain's
\* coords table is the position of the atom, 0 .. n-1
ExtractCoords(coords) ==
    LET C == [k \in 1 .. Len(coords) |->
                 [index |-> k - 1,
                  residue_index |-> coords[k].residue_index,
                  xyz |-> coords[k].xyz]]
        group(key) == { k \in 1 .. Len(C) : C[k].residue_index = key }
        keys == SortedKeys({ C[k].residue_index : k \in 1 .. Len(C) })
    IN  [atom_ranges |->
            [r \in 1 .. Len(keys) |->
                <<C[Minimum(group(keys[r]))].index,
                  C[Maximum(group(keys[r]))].index>>],
         xyz_coords |-> [k \in 1 .. Len(C) |-> C[k].xyz]]

\* lines 182-199: the atom ranges and coordinates of both axes; the kernel
\* is called
FromCoords ==
    /\ pc = "from_coords"
    /\ LET e_i == ExtractCoords(chain_i.coords)
       IN  /\ residues_i' = e_i.atom_ranges
           /\ coords_i' = e_i.xyz_coords
           /\ IF chain_j = None
              THEN /\ symmetric' = TRUE
                   /\ chain_j' = chain_i
                   /\ residues_j' = e_i.atom_ranges
                   /\ coords_j' = e_i.xyz_coords
              ELSE /\ symmetric' = FALSE
                   /\ chain_j' = chain_j
                   /\ residues_j' = ExtractCoords(chain_j.coords).atom_ranges
                   /\ coords_j' = ExtractCoords(chain_j.coords).xyz_coords
    /\ pc' = "call"
    /\ UNCHANGED <<chain_i, dists, i, j, fill, map, file, last>>

\* lines 202-205: the kernel has returned; the map object is created
Construct ==
    /\ pc = "return"
    /\ map' = DistanceMap(chain_i.residues, chain_j.residues, dists, symmetric)
    /\ last' = Called("from_coords", None)
    /\ pc' = "map"
    /\ UNCHANGED <<chain_i, chain_j, kernelVars, file>>

(***************************************************************************)
(* dist, __getitem__, contacts, aggregate                                  *)
(***************************************************************************)
\* dist without the test of j: the subscript self.id_map_j[j] raises KeyError
\* whatever raise_na says
dist_unchecked_j(self, qi, qj, raise_na) ==
    LET si == Str(qi)
        sj == Str(qj)
    IN  IF si \notin DOMAIN self.id_map_i
        THEN (IF raise_na THEN KeyError ELSE NaN)
        ELSE IF sj \notin DOMAIN self.id_map_j
        THEN KeyError
        ELSE Float(self.dist_matrix[<<self.id_map_i[si], self.id_map_j[sj]>>])

dist(self, qi, qj, raise_na) ==
    LET si == Str(qi)
        sj == Str(qj)
    IN  IF si \notin DOMAIN self.id_map_i
        THEN (IF raise_na THEN KeyError ELSE NaN)
        ELSE IF sj \notin DOMAIN self.id_map_j
        THEN (IF raise_na THEN KeyError ELSE NaN)
        ELSE Float(self.dist_matrix[<<self.id_map_i[si], self.id_map_j[sj]>>])

getitem(self, qi, qj) == dist(self, qi, qj, TRUE)

\* a call obj.method(args): obj is passed as the first positional argument
\* of a function taking n_params parameters, n_required of them without a
\* default; the body runs only if the arguments fit
BoundCall(n_params, n_required, n_args, body) ==
    IF n_args + 1 > n_params \/ n_args + 1 < n_required THEN TypeError ELSE body

\* def contacts(self, max_dist=5.0, min_dist=None): raise NotImplementedError
contacts(n_args) == BoundCall(3, 1, n_args, NotImplementedError)

\* def aggregate(): raise NotImplementedError
aggregate(n_args) == BoundCall(0, 0, n_args, NotImplementedError)

\* the identifiers callers ask about: 1 as an int, "1", "1A" and "2"
QueryIds == { IntId(1), StrId(1, ""), StrId(1, "A"), StrId(2, "") }

CallDist ==
    /\ pc = "map"
    /\ last = NoCall
    /\ \E qi \in QueryIds, qj \in QueryIds, raise_na \in BOOLEAN :
         last' = [op |-> "dist", i |-> qi, j |-> qj, raise_na |-> raise_na,
                  out |-> dist(map, qi, qj, raise_na)]
    /\ UNCHANGED <<pc, chain_i, chain_j, kernelVars, map, file>>

CallGetItem ==
    /\ pc = "map"
    /\ last = NoCall
    /\ \E qi \in QueryIds, qj \in QueryIds :
         last' = [op |-> "getitem", i |-> qi, j |-> qj, raise_na |-> TRUE,
                  out |-> getitem(map, qi, qj)]
    /\ UNCHANGED <<pc, chain_i, chain_j, kernelVars, map, file>>

CallContacts ==
    /\ pc = "map"
    /\ last = NoCall
    /\ \E n_args \in 0 .. 2 : last' = Called("contacts", contacts(n_args))
    /\ UNCHANGED <<pc, chain_i, chain_j, kernelVars, map, file>>

CallAggregate ==
    /\ pc = "map"
    /\ last = NoCall
    /\ last' = Called("aggregate", aggregate(0))
    /\ UNCHANGED <<pc, chain_i, chain_j, kernelVars, map, file>>

(***************************************************************************)
(* to_file, from_file.  A csv cell is text: the digits and what follows    *)
(* them, with no type.  The npy file is the shape and the entries in       *)
(* row-major order.                                                        *)
(***************************************************************************)
Text(v) == [num |-> v.num, suffix |-> v.suffix]

\* _add_axis: a copy of the table with the axis column set
AddAxis(df, axis) ==
    [k \in 1 .. Len(df) |-> [id |-> df[k].id, axis |-> axis]]

\* residues.to_csv: every cell written as text
ToCsv(df, has_axis) ==
    [has_axis |-> has_axis,
     rows |-> [k \in 1 .. Len(df) |->
                  IF has_axis THEN [id |-> Text(df[k].id), axis |-> df[k].axis]
                  ELSE [id |-> Text(df[k].id)]]]

NpySave(m, rows, cols) ==
    [shape |-> <<rows, cols>>,
     data |-> [k \in 1 .. rows * cols |-> m[<<(k - 1) \div cols, (k - 1) % cols>>]]]

NpyLoad(npy) ==
    [c \in (0 .. npy.shape[1] - 1) \X (0 .. npy.shape[2] - 1) |->
        npy.data[c[1] * npy.shape[2] + c[2] + 1]]

to_file(self) ==
    [csv |-> IF self.symmetric
             THEN ToCsv(self.residues_i, FALSE)
             ELSE ToCsv(AddAxis(self.residues_i, "i") \o AddAxis(self.residues_j, "j"),
                        TRUE),
     npy |-> NpySave(self.dist_matrix, Len(self.residues_i), Len(self.residues_j))]

\* pd.read_csv without a dtype for the id column: a column whose cells are
\* all digits is read as integers, any other column as strings
ReadCsv(csv) ==
    LET numeric == \A k \in 1 .. Len(csv.rows) : csv.rows[k].id.suffix = ""
        value(cell) == IF numeric THEN IntId(cell.num)
                       ELSE StrId(cell.num, cell.suffix)
    IN  [k \in 1 .. Len(csv.rows) |->
            IF csv.has_axis
            THEN [id |-> value(csv.rows[k].id), axis |-> csv.rows[k].axis]
            ELSE [id |-> value(csv.rows[k].id)]]

\* residues.query("axis == ...").drop("axis", axis=1)
RECURSIVE QueryAxis(_, _)
QueryAxis(rows, axis) ==
    IF rows = <<>> THEN <<>>
    ELSE (IF Head(rows).axis = axis THEN <<[id |-> Head(rows).id]>> ELSE <<>>)
         \o QueryAxis(Tail(rows), axis)

\* "axis" in residues.columns decides the symmetric flag
from_file(f) ==
    LET residues == ReadCsv(f.csv)
        dist_matrix == NpyLoad(f.npy)
    IN  IF f.csv.has_axis
        THEN DistanceMap(QueryAxis(residues, "i"), QueryAxis(residues, "j"),
                         dist_matrix, FALSE)
        ELSE DistanceMap(residues, residues, dist_matrix, TRUE)

CallToFile ==
    /\ pc = "map"
    /\ last = NoCall
    /\ file' = to_file(map)
    /\ last' = Called("to_file", None)
    /\ UNCHANGED <<pc, chain_i, chain_j, kernelVars, map>>

CallFromFile ==
    /\ pc = "map"
    /\ last = NoCall
    /\ file # None
    /\ map' = from_file(file)
    /\ last' = Called("from_file", None)
    /\ UNCHANGED <<pc, chain_i, chain_j, kernelVars, file>>

\* the caller takes the outcome of its call and is ready for the next one
Resume ==
    /\ pc = "map"
    /\ last # NoCall
    /\ last' = NoCall
    /\ UNCHANGED <<pc, chain_i, chain_j, kernelVars, map, file>>

(***************************************************************************)
(* Chains handed to from_coords: atoms at near positions, the atoms of a   *)
(* residue contiguous and the residues in ascending order, and a residue   *)
(* table with one str id per residue (ids may repeat).                     *)
(***************************************************************************)
Ids == { StrId(1, ""), StrId(1, "A") }

ChainPoints == { p \in Points : DistanceOf[<<p, <<0, 0, 0>>>>] < LARGE_DIST }

ResidueIndexSeqs(n) ==
    { f \in [1 .. n -> 0 .. MaxRes - 1] :
        f[1] = 0 /\ \A k \in 1 .. n - 1 : f[k + 1] - f[k] \in {0, 1} }

Chains(n) ==
    UNION { { [coords |-> [k \in 1 .. n |-> [residue_index |-> f[k], xyz |-> xyz[k]]],
               residues |-> [k \in 1 .. f[n] + 1 |-> [id |-> ids[k]]]] :
                xyz \in [1 .. n -> ChainPoints], ids \in [1 .. f[n] + 1 -> Ids] } :
            f \in ResidueIndexSeqs(n) }

Init ==
    /\ pc = "from_coords"
    /\ \E n \in 1 .. MaxAtoms :
         /\ chain_i \in Chains(n)
         /\ \/ chain_j = None
            \/ \E m \in 1 .. MaxAtoms - n : chain_j \in Chains(m)
    /\ residues_i = <<>> /\ coords_i = <<>> /\ residues_j = <<>> /\ coords_j = <<>>
    /\ symmetric = FALSE
    /\ dists = <<>> /\ fill = <<>> /\ i = 0 /\ j = 0
    /\ map = None /\ file = None /\ last = NoCall

Next ==
    \/ FromCoords \/ KernelEnter \/ CopyCell \/ ComputeCell \/ Construct
    \/ CallDist \/ CallGetItem \/ CallContacts \/ CallAggregate
    \/ CallToFile \/ CallFromFile \/ Resume

Spec == Init /\ [][Next]_vars

(***************************************************************************)
(* Properties of the kernel, checked under SpecKernel.                     *)
(***************************************************************************)
Cells == DOMAIN dists

\* the atom pairs of cell c, as a set
PairSet(c) ==
    (residues_i[c[1] + 1][1] .. residues_i[c[1] + 1][2])
        \X (residues_j[c[2] + 1][1] .. residues_j[c[2] + 1][2])

PairDistance(p) == DistanceOf[<<coords_i[p[1] + 1], coords_j[p[2] + 1]>>]

\* the brute-force reference: the least distance over the atom pairs of cell c
BruteForce(c) == Minimum({ PairDistance(p) : p \in PairSet(c) })

\* C1: when the kernel has returned, every cell whose residues have atoms
\* equals the minimum Euclidean distance over all atom pairs of its two
\* residues (the brute-force reference).
C1_KernelMatchesBruteForce ==
    pc = "done" =>
        \A c \in Cells : PairSet(c) # {} => dists[c] = BruteForce(c)

\* The same agreement, restricted to the cells whose reference minimum does
\* not exceed LARGE_DIST.
KernelMatchesBelowCap ==
    pc = "done" =>
        \A c \in Cells :
            (PairSet(c) # {} /\ BruteForce(c) <= LARGE_DIST) => dists[c] = BruteForce(c)

Filled == { c \in Cells : fill[c] # "none" }

\* C8: cells are written in row-major order (the k-th write goes to cell
\* k in row-major order), a written cell is never written again, and a cell
\* off the diagonal that is filled by copying takes the value of its mirror
\* cell, which was filled before by atom-pair comparison.
C8_FillOrder ==
    [][pc = "loop" =>
        /\ \A c \in Cells :
              fill[c] # "none" => (fill'[c] = fill[c] /\ dists'[c] = dists[c])
        /\ \A c \in Cells :
              (fill[c] = "none" /\ fill'[c] # "none")
                  => Cardinality(Filled) = c[1] * N_j + c[2]
        /\ \A c \in Cells :
              (fill[c] = "none" /\ fill'[c] = "copied" /\ c[1] # c[2])
                  => /\ c[1] > c[2]
                     /\ fill[<<c[2], c[1]>>] = "compared"
                     /\ dists'[c] = dists[<<c[2], c[1]>>]]_vars

\* a symmetric call has returned with a lower-triangle cell copied from a
\* non-zero computed cell
C8_Witness ==
    /\ pc = "done"
    /\ symmetric
    /\ \E c \in Cells : c[1] > c[2] /\ fill[c] = "copied" /\ dists[c] > 0

BuiltByFromCoords ==
    /\ pc = "map"
    /\ map = DistanceMap(chain_i.residues, chain_j.residues, dists, symmetric)

RowsOf(table) == 0 .. Len(table) - 1

\* the two-residue scenario: A = atoms at (0,0,0) and (1,0,0), B = atom at (3,0,0)
IsScenario ==
    chain_i.coords = << [residue_index |-> 0, xyz |-> <<0, 0, 0>>],
                        [residue_index |-> 0, xyz |-> <<1, 0, 0>>],
                        [residue_index |-> 1, xyz |-> <<3, 0, 0>>] >>

\* the least distance between two distinct atoms of residue r, 0 for a
\* residue of one atom
WithinResidue(r) ==
    LET atoms == residues_i[r + 1][1] .. residues_i[r + 1][2]
    IN  IF Cardinality(atoms) <= 1 THEN 0
        ELSE Minimum({ DistanceOf[<<coords_i[a + 1], coords_i[b + 1]>>] :
                         <<a, b>> \in { ab \in atoms \X atoms : ab[1] # ab[2] } })

\* C2 as stated: in a symmetric map built by from_coords the diagonal entry
\* of residue r is the distance between its own distinct atoms (0 for a
\* residue of one atom); in the scenario D[A,B] = 2, D[A,A] = 1, D[B,B] = 0.
C2_DiagonalFromAtomPairs ==
    (BuiltByFromCoords /\ map.symmetric) =>
        /\ \A r \in RowsOf(map.residues_i) :
              map.dist_matrix[<<r, r>>] = WithinResidue(r)
        /\ IsScenario =>
              /\ map.dist_matrix[<<0, 1>>] = 2
              /\ map.dist_matrix[<<0, 0>>] = 1
              /\ map.dist_matrix[<<1, 1>>] = 0

\* C2 amended: in a symmetric map built by from_coords every diagonal entry
\* is 0, the value the zero matrix held when the cell was copied onto
\* itself, and dist(id, id) is 0 for every id of the table; in the scenario
\* D[A,B] = 2, D[A,A] = 0, D[B,B] = 0.
C2_DiagonalIsZero ==
    (BuiltByFromCoords /\ map.symmetric) =>
        /\ \A r \in RowsOf(map.residues_i) :
              /\ map.dist_matrix[<<r, r>>] = 0
              /\ fill[<<r, r>>] = "copied"
              /\ dist(map, map.residues_i[r + 1].id, map.residues_i[r + 1].id, TRUE)
                    = Float(0)
        /\ IsScenario =>
              /\ map.dist_matrix[<<0, 1>>] = 2
              /\ map.dist_matrix[<<0, 0>>] = 0
              /\ map.dist_matrix[<<1, 1>>] = 0

\* the scenario's map has been built
C2_Witness ==
    /\ BuiltByFromCoords
    /\ map.symmetric
    /\ IsScenario
    /\ map.dist_matrix[<<0, 0>>] = 0
    /\ map.dist_matrix[<<0, 1>>] = 2

\* C3: a map whose symmetric flag is True has the same table on both axes
\* (hence the same id mapping) and a symmetric matrix, and dist(i, j) and
\* dist(j, i) have the same outcome for all identifiers.
C3_SymmetricMap ==
    (pc = "map" /\ map.symmetric) =>
        /\ map.residues_i = map.residues_j
        /\ map.id_map_i = map.id_map_j
        /\ \A r \in RowsOf(map.residues_i), c \in RowsOf(map.residues_j) :
              map.dist_matrix[<<r, c>>] = map.dist_matrix[<<c, r>>]
        /\ \A qi \in QueryIds, qj \in QueryIds :
              dist(map, qi, qj, TRUE) = dist(map, qj, qi, TRUE)

\* a symmetric map with a non-zero entry has been reloaded by from_file
C3_Witness ==
    /\ pc = "map"
    /\ last.op = "from_file"
    /\ map.symmetric
    /\ \E r \in RowsOf(map.residues_i), c \in RowsOf(map.residues_j) :
          r # c /\ map.dist_matrix[<<r, c>>] > 0

\* two maps with the same flag, matrix and tables, answering every lookup alike
SameMap(a, b) ==
    /\ a.symmetric = b.symmetric
    /\ a.dist_matrix = b.dist_matrix
    /\ a.residues_i = b.residues_i
    /\ a.residues_j = b.residues_j
    /\ \A qi \in QueryIds, qj \in QueryIds :
          dist(a, qi, qj, TRUE) = dist(b, qi, qj, TRUE)

\* C4: from_file applied to the file pair written by to_file of the map held
\* yields a map with the same symmetric flag, the same matrix and the same
\* tables (ids read back as the strings they were), answering dist alike.
C4_RoundTrip ==
    [][(pc = "map" /\ last'.op = "from_file" /\ file = to_file(map))
          => SameMap(map', map)]_vars

\* the identifier asked for, in its string form, is a key of the id mapping
Present(q, id_map) == Str(q) \in DOMAIN id_map

\* C5: a lookup of a pair with an identifier absent from its axis's id
\* mapping ends in KeyError for dist with raise_na=True and for subscript
\* access, and returns nan for dist with raise_na=False; a lookup that
\* returns a float had both identifiers present.
C5_MissingIdentifier ==
    (pc = "map" /\ last.op \in {"dist", "getitem"}) =>
        /\ (~Present(last.i, map.id_map_i) \/ ~Present(last.j, map.id_map_j))
              => last.out = (IF last.op = "getitem" \/ last.raise_na
                             THEN KeyError ELSE NaN)
        /\ last.out.t = "float"
              => (Present(last.i, map.id_map_i) /\ Present(last.j, map.id_map_j))

\* dist with raise_na=False has returned nan for a pair whose first
\* identifier is present and whose second is absent
C5_Witness ==
    /\ pc = "map"
    /\ last.op = "dist"
    /\ ~last.raise_na
    /\ Present(last.i, map.id_map_i)
    /\ ~Present(last.j, map.id_map_j)
    /\ last.out = NaN

\* the rows of a table whose id, in string form, is the string form of q
RowsWithId(table, q) == { r \in RowsOf(table) : Str(table[r + 1].id) = Str(q) }

\* C6: a lookup with identifiers, given as int or as str, whose string form
\* is the id of a row on each axis finds the residues and returns the
\* matrix entry of such rows.
C6_CoercedLookupFinds ==
    (/\ pc = "map"
     /\ last.op \in {"dist", "getitem"}
     /\ RowsWithId(map.residues_i, last.i) # {}
     /\ RowsWithId(map.residues_j, last.j) # {})
        => \E r \in RowsWithId(map.residues_i, last.i),
              c \in RowsWithId(map.residues_j, last.j) :
                last.out = Float(map.dist_matrix[<<r, c>>])

\* C7: a call of contacts or aggregate on a map ends in NotImplementedError.
C7_StubsRaiseUnimplemented ==
    (pc = "map" /\ last.op \in {"contacts", "aggregate"})
        => last.out = NotImplementedError

\* the last row of a table carrying id v
LastRow(table, v) == Maximum({ r \in RowsOf(table) : table[r + 1].id = v })

IdsOf(table) == { table[k].id : k \in 1 .. Len(table) }

\* C9: the id mapping of each axis has exactly the ids of the table as keys
\* and maps each to the last row carrying it; a lookup that finds both
\* identifiers returns the entry of those last rows.
C9_LastDuplicateWins ==
    pc = "map" =>
        /\ DOMAIN map.id_map_i = IdsOf(map.residues_i)
        /\ DOMAIN map.id_map_j = IdsOf(map.residues_j)
        /\ \A v \in IdsOf(map.residues_i) :
              map.id_map_i[v] = LastRow(map.residues_i, v)
        /\ \A v \in IdsOf(map.residues_j) :
              map.id_map_j[v] = LastRow(map.residues_j, v)
        /\ (last.op = "dist" /\ last.out.t = "float") =>
              last.out.v = map.dist_matrix[<<LastRow(map.residues_i, Str(last.i)),
                                             LastRow(map.residues_j, Str(last.j))>>]

\* a map whose first axis carries one id in two rows has answered a lookup
\* of that id with the entry of the later row, which differs from the
\* entry of the earlier row
C9_Witness ==
    /\ pc = "map"
    /\ last.op = "dist"
    /\ last.out.t = "float"
    /\ \E r1 \in RowsOf(map.residues_i), r2 \in RowsOf(map.residues_i) :
          /\ r1 < r2
          /\ map.residues_i[r1 + 1].id = Str(last.i)
          /\ map.residues_i[r2 + 1].id = Str(last.i)
          /\ last.out.v = map.dist_matrix[<<r2, map.id_map_j[Str(last.j)]>>]
          /\ last.out.v # map.dist_matrix[<<r1, map.id_map_j[Str(last.j)]>>]

====
